---- MODULE Spec2Model ----
(***************************************************************************)
(* Model of src/src/sweden-energy-price-planner.js: the greedy selection   *)
(* of the cheapest non-overlapping time slots, the fee normalisation, the  *)
(* cached two-day fetch with its per-day retry loop, and the calculate     *)
(* handler that composes them.                                             *)
(*                                                                         *)
(* Time is counted in minutes since 00:00 UTC of day 0.  Prices are        *)
(* integers (fixed point).  Zones, dates and prices are integers so that   *)
(* a stored cache value is one sequence of integers.                       *)
(***************************************************************************)
EXTENDS Integers, Sequences, FiniteSets, TLC

VARIABLES
    \* --- findTopBestTimeSlots applied to an arbitrary series (SpecSlots) ---
    fnSeries,      \* the availablePrices argument
    fnMinutes,     \* hours * 60, the requested duration
    fnNumSlots,    \* the numSlots argument
    fnSlots,       \* the returned bestSlots
    fnPc,          \* "call" before the call, "done" after it, "off" in Spec
    fnCalls,       \* how often the function was called on fnSeries
    \* --- parsePriceData and applyUserFees applied to arbitrary arguments ---
    pfArgs,        \* the arguments of the call
    pfResult,      \* what the call returned
    \* --- the page (Spec) ---
    clock,                  \* the current time, minutes UTC
    ticks,                  \* how often the clock has advanced
    localStorage,           \* the value stored under CACHE_KEY, << >> if none
    calc,                   \* the handleCalculate invocation in flight
    fetch,                  \* the two fetchPrices invocations of that calculation
    calculateButtonDisabled,
    lastCalculatedSlots,
    lastCalculatedUserFees,
    view,                   \* what the page shows: message box, status box, slots
    pipeline,               \* the last checkCacheAndFetchPrices call: its zone and
                            \* dates, what it fetched and returned, and the local
                            \* date on which the stored cache value was written
    started                 \* how many calculations have passed validation

fnVars == <<fnSeries, fnMinutes, fnNumSlots, fnSlots, fnPc, fnCalls,
           pfArgs, pfResult>>

pageVars == <<clock, ticks, localStorage, calc, fetch, calculateButtonDisabled,
              lastCalculatedSlots, lastCalculatedUserFees, view, pipeline,
              started>>

vars == <<fnVars, pageVars>>

-----------------------------------------------------------------------------
(* Bounds of the model *)

MaxLen == 5        \* longest series given to findTopBestTimeSlots
MaxPeriods == 3    \* longest requested duration, in 15-minute periods
MaxTopN == 3       \* largest numSlots
MaxCalls == 2      \* calls of findTopBestTimeSlots on one series
MaxRaw == 3        \* longest raw array given to parsePriceData
MaxBase == 3       \* largest base price given to applyUserFees, either sign
MaxFee == 2        \* largest grid fee and energy tax given to applyUserFees
MaxVat == 25       \* largest VAT percentage given to applyUserFees

\* all-in prices of a generated series (negative spot prices occur)
PriceValues == {-1, 0, 2}

\* requested durations: whole numbers of periods, and one that is not
Durations == {15 * k : k \in 1..MaxPeriods} \cup {20}

-----------------------------------------------------------------------------
(* findTopBestTimeSlots *)

\* One period of a parsed series, as parsePriceData builds it.
Period(ts, base, price, past) ==
    [timestamp |-> ts, base_price |-> base, calculated_price |-> price,
     isPast |-> past, available |-> TRUE]

\* JSON.parse(JSON.stringify(availablePrices)) followed by the forEach that
\* restores the Date and sets available = true on every copy.
WorkingCopy(availablePrices) ==
    [i \in 1..Len(availablePrices) |->
        [availablePrices[i] EXCEPT !.available = TRUE]]

RECURSIVE IndicesFrom(_, _)
\* workingPrices.map((p, index) => p.available ? index : -1).filter(...)
IndicesFrom(workingPrices, i) ==
    IF i > Len(workingPrices) THEN << >>
    ELSE IF workingPrices[i].available
         THEN <<i>> \o IndicesFrom(workingPrices, i + 1)
         ELSE IndicesFrom(workingPrices, i + 1)

AvailableIndices(workingPrices) == IndicesFrom(workingPrices, 1)

RECURSIVE BlockCost(_, _, _)
\* currentBlock.reduce((sum, p) => sum + p.calculated_price, 0)
BlockCost(workingPrices, first, last) ==
    IF first > last THEN 0
    ELSE workingPrices[first].calculated_price
         + BlockCost(workingPrices, first + 1, last)

WindowIsContiguousMutant(availableIndices, i, minutes) ==
    LET periodsNeeded == minutes \div 15
    IN /\ i + periodsNeeded - 1 \in 1..Len(availableIndices)
       /\ availableIndices[i + periodsNeeded - 1] - availableIndices[i]
             = periodsNeeded - 1

\* blockEndOriginalIndex - blockStartOriginalIndex === periodsNeeded - 1.
\* periodsNeeded = minutes / 15; when it is fractional the index
\* i + periodsNeeded - 1 names no element, the difference is NaN and the
\* test is false.
WindowIsContiguous(availableIndices, i, minutes) ==
    /\ minutes % 15 = 0
    /\ LET periodsNeeded == minutes \div 15
       IN /\ i + periodsNeeded - 1 \in 1..Len(availableIndices)
          /\ availableIndices[i + periodsNeeded - 1] - availableIndices[i]
                = periodsNeeded - 1

NoBlockMutant == [found |-> TRUE, cheapestCost |-> 0,
                  bestBlockStartIndex |-> -1, bestBlockEndIndex |-> -1]

\* The "nothing found yet" value of (cheapestCost, bestBlockStartIndex,
\* bestBlockEndIndex): Infinity, -1, -1.
NoBlock == [found |-> FALSE, cheapestCost |-> 0,
            bestBlockStartIndex |-> -1, bestBlockEndIndex |-> -1]

CheaperOrEqualMutant(currentCost, best) ==
    (~best.found) \/ currentCost <= best.cheapestCost

CheaperMutant(currentCost, best) ==
    (~best.found) \/ currentCost > best.cheapestCost

\* currentCost < cheapestCost, with cheapestCost = Infinity until a block is found
Cheaper(currentCost, best) ==
    (~best.found) \/ currentCost < best.cheapestCost

RECURSIVE ScanWindowsMutant(_, _, _, _, _)
ScanWindowsMutant(workingPrices, availableIndices, minutes, i, best) ==
    IF (i - 1) * 15 >= Len(availableIndices) * 15 - minutes THEN best
    ELSE IF WindowIsContiguous(availableIndices, i, minutes)
         THEN LET blockStartOriginalIndex == availableIndices[i]
                  blockEndOriginalIndex ==
                      availableIndices[i + (minutes \div 15) - 1]
                  currentCost == BlockCost(workingPrices,
                                           blockStartOriginalIndex,
                                           blockEndOriginalIndex)
              IN ScanWindowsMutant(workingPrices, availableIndices, minutes,
                    i + 1,
                    IF Cheaper(currentCost, best)
                    THEN [found |-> TRUE, cheapestCost |-> currentCost,
                          bestBlockStartIndex |-> blockStartOriginalIndex,
                          bestBlockEndIndex |-> blockEndOriginalIndex]
                    ELSE best)
         ELSE ScanWindowsMutant(workingPrices, availableIndices, minutes,
                                i + 1, best)

RECURSIVE ScanWindows(_, _, _, _, _)
\* for (let i = 0; i <= availableIndices.length - periodsNeeded; i++) {...}
ScanWindows(workingPrices, availableIndices, minutes, i, best) ==
    IF (i - 1) * 15 > Len(availableIndices) * 15 - minutes THEN best
    ELSE IF WindowIsContiguous(availableIndices, i, minutes)
         THEN LET blockStartOriginalIndex == availableIndices[i]
                  blockEndOriginalIndex ==
                      availableIndices[i + (minutes \div 15) - 1]
                  currentCost == BlockCost(workingPrices,
                                           blockStartOriginalIndex,
                                           blockEndOriginalIndex)
              IN ScanWindows(workingPrices, availableIndices, minutes, i + 1,
                    IF Cheaper(currentCost, best)
                    THEN [found |-> TRUE, cheapestCost |-> currentCost,
                          bestBlockStartIndex |-> blockStartOriginalIndex,
                          bestBlockEndIndex |-> blockEndOriginalIndex]
                    ELSE best)
         ELSE ScanWindows(workingPrices, availableIndices, minutes, i + 1, best)

MarkUnavailableMutant(workingPrices, first, last) ==
    [i \in 1..Len(workingPrices) |->
        IF first <= i /\ i < last
        THEN [workingPrices[i] EXCEPT !.available = FALSE]
        ELSE workingPrices[i]]

\* for (let i = bestBlockStartIndex; i <= bestBlockEndIndex; i++)
\*     workingPrices[i].available = false;
MarkUnavailable(workingPrices, first, last) ==
    [i \in 1..Len(workingPrices) |->
        IF first <= i /\ i <= last
        THEN [workingPrices[i] EXCEPT !.available = FALSE]
        ELSE workingPrices[i]]

\* The slot pushed on bestSlots.  bestBlock is a slice of workingPrices, so
\* its periods are the objects the marking loop then flags unavailable.
\* averagePrice = cheapestCost / periodsNeeded is kept as the fraction
\* <<numerator, denominator>> with the denominator in minutes / 15.
MakeSlot(marked, k, best, minutes) ==
    LET bestBlock == SubSeq(marked, best.bestBlockStartIndex,
                            best.bestBlockEndIndex)
    IN [rank |-> k + 1,
        startTime |-> bestBlock[1].timestamp,
        endTime |-> bestBlock[Len(bestBlock)].timestamp + 15,
        averagePrice |-> <<best.cheapestCost * 15, minutes>>,
        totalCost |-> best.cheapestCost,
        periods |-> bestBlock]

RECURSIVE GreedyRoundsMutant(_, _, _, _, _)
GreedyRoundsMutant(workingPrices, minutes, numSlots, k, bestSlots) ==
    IF k >= numSlots THEN bestSlots
    ELSE LET availableIndices == AvailableIndices(workingPrices)
         IN IF Len(availableIndices) * 15 <= minutes THEN bestSlots
            ELSE LET best == ScanWindows(workingPrices, availableIndices,
                                         minutes, 1, NoBlock)
                 IN IF best.bestBlockStartIndex # -1
                    THEN LET marked == MarkUnavailable(workingPrices,
                                           best.bestBlockStartIndex,
                                           best.bestBlockEndIndex)
                         IN GreedyRoundsMutant(marked, minutes, numSlots,
                                k + 1,
                                Append(bestSlots,
                                       MakeSlot(marked, k, best, minutes)))
                    ELSE bestSlots

RECURSIVE GreedyRounds(_, _, _, _, _)
\* for (let k = 0; k < numSlots; k++) {...}
GreedyRounds(workingPrices, minutes, numSlots, k, bestSlots) ==
    IF k >= numSlots THEN bestSlots
    ELSE LET availableIndices == AvailableIndices(workingPrices)
         IN IF Len(availableIndices) * 15 < minutes THEN bestSlots
            ELSE LET best == ScanWindows(workingPrices, availableIndices,
                                         minutes, 1, NoBlock)
                 IN IF best.bestBlockStartIndex # -1
                    THEN LET marked == MarkUnavailable(workingPrices,
                                           best.bestBlockStartIndex,
                                           best.bestBlockEndIndex)
                         IN GreedyRounds(marked, minutes, numSlots, k + 1,
                                Append(bestSlots,
                                       MakeSlot(marked, k, best, minutes)))
                    ELSE bestSlots

\* findTopBestTimeSlots(availablePrices, hours, numSlots), hours = minutes / 60
FindTopBestTimeSlots(availablePrices, minutes, numSlots) ==
    GreedyRounds(WorkingCopy(availablePrices), minutes, numSlots, 0, << >>)

\* what the function's writes would leave in an array whose elements are
\* the objects of workingPrices: available = true on each (the forEach),
\* then false on the periods of every slot pushed
WrittenFlags(prices, bestSlots) ==
    [i \in 1..Len(prices) |->
        [prices[i] EXCEPT !.available =
            \A s \in 1..Len(bestSlots) :
                \A j \in 1..Len(bestSlots[s].periods) :
                    bestSlots[s].periods[j].timestamp # prices[i].timestamp]]

InputAfterCallMutant(availablePrices, bestSlots) ==
    WrittenFlags(availablePrices, bestSlots)

\* The caller's array after the call. workingPrices holds copies made by
\* JSON.parse(JSON.stringify(...)), so none of the function's writes
\* reaches an object of availablePrices.
InputAfterCall(availablePrices, bestSlots) == availablePrices

-----------------------------------------------------------------------------
(* Dates, URLs and the remote price source *)

MaxTicks == 2      \* how often the clock advances
MaxStarted == 2    \* how many calculations pass validation

\* The page runs in Sweden's time zone: CET, one hour ahead of UTC.
TzOffsetMinutes == 1 * 60

\* The clock advances an hour at a time, from 22:30 UTC (23:30 local) of day 0.
ClockStart == 22 * 60 + 30
ClockStep == 1 * 60

\* today.toISOString().split("T")[0]: the calendar date in UTC
UtcDateStr(date) == date \div 1440

\* date.getFullYear(), getMonth(), getDate(): the calendar date in local time
LocalDate(date) == (date + TzOffsetMinutes) \div 1440

\* date.getHours(): the hour of the day in local time
LocalHours(date) == ((date + TzOffsetMinutes) % 1440) \div 60

\* getApiUrl(date, zone): {base}/{YYYY}/{MM}-{DD}_{ZONE}.json
GetApiUrl(date, zone) == [day |-> LocalDate(date), zone |-> zone]

\* tomorrow.setDate(tomorrow.getDate() + 1)
NextDay(date) == date + 1440

Zones == {3, 4}    \* SE3, SE4

\* A raw period of the remote source.  time_start is an ISO-8601 string with
\* an offset: wall-clock minutes since day 0 and the offset from UTC.
RawPeriod(wall, price) ==
    [time_start |-> [wall |-> wall, offset |-> 60], SEK_per_kWh |-> price]

\* new Date(item.time_start).getTime()
DateOf(time_start) == time_start.wall - time_start.offset

\* The array the remote source publishes for a day and zone: the first two
\* periods of the day and the last one.
RemoteBody(url) ==
    LET d == url.day
        price(k) == ((d + url.zone + k) % 3) - 1
    IN << RawPeriod(d * 1440 + 15, price(1)),
          RawPeriod(d * 1440, price(0)),
          RawPeriod(d * 1440 + 1425, price(2)) >>

-----------------------------------------------------------------------------
(* Sorting by time, as Array.prototype.sort does it (stable) *)

RECURSIVE InsertByKey(_, _)
\* sorted is ascending by key; x goes after every element whose key is <= its own
InsertByKey(sorted, x) ==
    IF sorted = << >> THEN <<x>>
    ELSE IF sorted[Len(sorted)].key <= x.key THEN Append(sorted, x)
         ELSE Append(InsertByKey(SubSeq(sorted, 1, Len(sorted) - 1), x),
                     sorted[Len(sorted)])

RECURSIVE SortKeyed(_)
SortKeyed(keyed) ==
    IF keyed = << >> THEN << >>
    ELSE InsertByKey(SortKeyed(SubSeq(keyed, 1, Len(keyed) - 1)),
                     keyed[Len(keyed)])

\* items in ascending order of keys[i], the key of items[i]; equal keys keep
\* their order
SortByKey(items, keys) ==
    LET sorted == SortKeyed([i \in 1..Len(items) |->
                                [key |-> keys[i], item |-> items[i]]])
    IN [i \in 1..Len(items) |-> sorted[i].item]

\* [...].sort((a, b) => new Date(a.time_start).getTime()
\*                      - new Date(b.time_start).getTime())
SortRaw(raw) ==
    SortByKey(raw, [i \in 1..Len(raw) |-> DateOf(raw[i].time_start)])

-----------------------------------------------------------------------------
(* applyUserFees and parsePriceData *)

ApplyUserFeesMutant(basePrice, vat, energyTax, gridFee) ==
    LET totalFixedFee == energyTax + gridFee
        priceBeforeVAT == basePrice - totalFixedFee
    IN priceBeforeVAT * (100 + vat)

\* (basePrice + energyTax + gridFee) * (1 + vat / 100), in hundredths of the
\* price unit: the product is taken with 100 + vat.
ApplyUserFees(basePrice, vat, energyTax, gridFee) ==
    LET totalFixedFee == energyTax + gridFee
        priceBeforeVAT == basePrice + totalFixedFee
    IN priceBeforeVAT * (100 + vat)

\* a value handed to parsePriceData: an array, or something else (null, an
\* object) for which Array.isArray is false
JsArray(items) == [isArray |-> TRUE, items |-> items]
NotAnArray == [isArray |-> FALSE, items |-> << >>]

ParsePriceDataMutant(rawData, userFees, nowTime) ==
    IF ~rawData.isArray \/ Len(rawData.items) = 0 THEN << >>
    ELSE [i \in 1..Len(rawData.items) |->
             LET item == rawData.items[i]
                 timestamp == DateOf(item.time_start)
             IN Period(timestamp,
                       item.SEK_per_kWh,
                       ApplyUserFees(item.SEK_per_kWh,
                                     userFees.vat, userFees.energyTax,
                                     userFees.gridFee),
                       timestamp < nowTime)]

\* parsePriceData(rawData, userFees), with now = nowTime
ParsePriceData(rawData, userFees, nowTime) ==
    IF ~rawData.isArray \/ Len(rawData.items) = 0 THEN << >>
    ELSE LET mapped ==
                 [i \in 1..Len(rawData.items) |->
                     LET item == rawData.items[i]
                         timestamp == DateOf(item.time_start)
                     IN Period(timestamp,
                               item.SEK_per_kWh,
                               ApplyUserFees(item.SEK_per_kWh,
                                             userFees.vat, userFees.energyTax,
                                             userFees.gridFee),
                               timestamp < nowTime)]
         IN SortByKey(mapped,
                      [i \in 1..Len(mapped) |-> mapped[i].timestamp])

-----------------------------------------------------------------------------
(* The cache value: JSON.stringify and JSON.parse *)

RECURSIVE StringifyPeriods(_)
StringifyPeriods(raw) ==
    IF raw = << >> THEN << >>
    ELSE <<raw[1].time_start.wall, raw[1].time_start.offset,
           raw[1].SEK_per_kWh>> \o StringifyPeriods(Tail(raw))

\* JSON.stringify({dateFetched, zone, today, tomorrow}) as a sequence of
\* integers: the two scalars, then each array as its length and its periods.
JSONStringify(entry) ==
    <<entry.dateFetched, entry.zone>>
    \o <<Len(entry.today)>> \o StringifyPeriods(entry.today)
    \o <<Len(entry.tomorrow)>> \o StringifyPeriods(entry.tomorrow)

ParsePeriodsMutant(str, at, n) ==
    [i \in 1..n |->
        [time_start |-> [wall |-> str[at + 3 * (i - 1)],
                         offset |-> str[at + 3 * (i - 1) + 1]],
         SEK_per_kWh |-> str[at + 2]]]

\* the n periods that start at position at of str
ParsePeriods(str, at, n) ==
    [i \in 1..n |->
        [time_start |-> [wall |-> str[at + 3 * (i - 1)],
                         offset |-> str[at + 3 * (i - 1) + 1]],
         SEK_per_kWh |-> str[at + 3 * (i - 1) + 2]]]

\* JSON.parse(cacheStr): ok is FALSE where JSON.parse throws
JSONParse(str) ==
    LET n1 == IF Len(str) >= 3 THEN str[3] ELSE -1
        at2 == 4 + 3 * n1
        n2 == IF n1 >= 0 /\ Len(str) >= at2 THEN str[at2] ELSE -1
        wellFormed == n1 >= 0 /\ n2 >= 0 /\ Len(str) = at2 + 3 * n2
    IN IF wellFormed
       THEN [ok |-> TRUE,
             value |-> [dateFetched |-> str[1], zone |-> str[2],
                        today |-> ParsePeriods(str, 4, n1),
                        tomorrow |-> ParsePeriods(str, at2 + 1, n2)]]
       ELSE [ok |-> FALSE]

\* a stored value that is not JSON
CorruptItem == <<-1>>

-----------------------------------------------------------------------------
(* fetchPrices: one day's fetch with its retry loop *)

MaxRetries == 3

\* what one request to the remote source can come back with
Outcomes == {"ok", "okEmpty", "notFound", "httpError", "networkError",
             "badBody"}

NoFetch ==
    [pc |-> "none", attempt |-> 0, url |-> [day |-> 0, zone |-> 0],
     requests |-> 0, waits |-> << >>, saw404 |-> FALSE,
     isNull |-> TRUE, rawData |-> << >>, status |-> "none"]

\* fetchPrices(date, zone) up to its first await: attempt 0 issues fetch(url).
\* requests and waits record the requests issued and the seconds waited,
\* saw404 whether a response had status 404.
StartFetch(date, zone) ==
    [NoFetch EXCEPT !.pc = "awaiting", !.url = GetApiUrl(date, zone),
                    !.requests = 1]

\* return { rawData, status }
Returned(f, isNull, rawData, status) ==
    [f EXCEPT !.pc = "done", !.isNull = isNull, !.rawData = rawData,
              !.status = status]

FetchOnErrorMutant(f) ==
    IF f.attempt = MaxRetries
    THEN Returned(f, TRUE, << >>, "Network error")
    ELSE [f EXCEPT !.pc = "backoff", !.waits = Append(@, 2 ^ f.attempt)]

\* the catch block: give up on the last attempt, otherwise wait
\* Math.pow(2, attempt) seconds
FetchOnError(f) ==
    IF f.attempt = MaxRetries - 1
    THEN Returned(f, TRUE, << >>, "Network error")
    ELSE [f EXCEPT !.pc = "backoff", !.waits = Append(@, 2 ^ f.attempt)]

FetchOnResponseMutant(f, outcome) ==
    LET g == [f EXCEPT !.saw404 = @ \/ outcome = "notFound"]
    IN IF outcome = "ok"
       THEN Returned(g, FALSE, RemoteBody(f.url), "successfully loaded")
       ELSE IF outcome = "okEmpty"
       THEN Returned(g, FALSE, << >>, "successfully loaded")
       ELSE FetchOnError(g)

\* the try block after await fetch(url): 404 returns at once, an OK response
\* returns its parsed body, everything else throws into the catch block
FetchOnResponse(f, outcome) ==
    LET g == [f EXCEPT !.saw404 = @ \/ outcome = "notFound"]
    IN IF outcome = "notFound"
       THEN Returned(g, TRUE, << >>, "not yet released (404)")
       ELSE IF outcome = "ok"
       THEN Returned(g, FALSE, RemoteBody(f.url), "successfully loaded")
       ELSE IF outcome = "okEmpty"
       THEN Returned(g, FALSE, << >>, "successfully loaded")
       ELSE FetchOnError(g)

\* the backoff timer fires: attempt++, and the loop issues the next request
\* while attempt < maxRetries
FetchOnTimer(f) ==
    LET attempt == f.attempt + 1
    IN IF attempt < MaxRetries
       THEN [f EXCEPT !.pc = "awaiting", !.attempt = attempt,
                      !.requests = @ + 1]
       ELSE Returned([f EXCEPT !.attempt = attempt], TRUE, << >>,
                     "after retries")

-----------------------------------------------------------------------------
(* checkCacheAndFetchPrices *)

CacheIsValidMutant(cacheStr, zone, todayDateStr) ==
    /\ cacheStr # << >>
    /\ JSONParse(cacheStr).ok
    /\ JSONParse(cacheStr).value.dateFetched = todayDateStr

\* cachedData && cachedData.zone === zone
\*            && cachedData.dateFetched === todayDateStr,
\* where cachedData stays undefined if nothing is stored or JSON.parse throws
CacheIsValid(cacheStr, zone, todayDateStr) ==
    /\ cacheStr # << >>
    /\ JSONParse(cacheStr).ok
    /\ JSONParse(cacheStr).value.zone = zone
    /\ JSONParse(cacheStr).value.dateFetched = todayDateStr

\* the value returned on a cache hit
CachedResult(cacheStr) ==
    LET cachedData == JSONParse(cacheStr).value
    IN [allRawPrices |-> SortRaw(cachedData.today \o cachedData.tomorrow),
        statusMessage |-> <<"Today: Cached", "Tomorrow: Cached">>,
        isCached |-> TRUE]

ShouldCacheMutant(todayRaw, tomorrowRaw) ==
    Len(todayRaw) > 0 \/ Len(tomorrowRaw) > 0

\* todayRaw.length > 0 && tomorrowRaw.length > 0
ShouldCache(todayRaw, tomorrowRaw) ==
    Len(todayRaw) > 0 /\ Len(tomorrowRaw) > 0

FetchedResultMutant(todayResult, tomorrowResult) ==
    LET failed == todayResult.isNull \/ tomorrowResult.isNull
        todayRaw == IF failed THEN << >> ELSE todayResult.rawData
        tomorrowRaw == IF failed THEN << >> ELSE tomorrowResult.rawData
    IN [allRawPrices |-> SortRaw(todayRaw \o tomorrowRaw),
        statusMessage |->
            <<todayResult.status, tomorrowResult.status,
              IF ShouldCache(todayRaw, tomorrowRaw)
              THEN "Data successfully cached."
              ELSE "Warning: Partial data. Not caching.">>,
        isCached |-> FALSE]

\* the value returned after both fetches have resolved
FetchedResult(todayResult, tomorrowResult) ==
    LET todayRaw == IF todayResult.isNull THEN << >> ELSE todayResult.rawData
        tomorrowRaw == IF tomorrowResult.isNull THEN << >>
                       ELSE tomorrowResult.rawData
    IN [allRawPrices |-> SortRaw(todayRaw \o tomorrowRaw),
        statusMessage |->
            <<todayResult.status, tomorrowResult.status,
              IF ShouldCache(todayRaw, tomorrowRaw)
              THEN "Data successfully cached."
              ELSE "Warning: Partial data. Not caching.">>,
        isCached |-> FALSE]

CacheAfterFetchMutant(cacheStr, dateStr, zone, todayResult, tomorrowResult) ==
    LET todayRaw == IF todayResult.isNull THEN << >> ELSE todayResult.rawData
        tomorrowRaw == IF tomorrowResult.isNull THEN << >>
                       ELSE tomorrowResult.rawData
    IN IF /\ ShouldCache(todayRaw, tomorrowRaw)
          /\ (cacheStr = << >> \/ JSONParse(cacheStr).ok)
       THEN JSONStringify([dateFetched |-> dateStr, zone |-> zone,
                           today |-> todayRaw, tomorrow |-> tomorrowRaw])
       ELSE cacheStr

\* what localStorage holds under CACHE_KEY after both fetches have resolved
CacheAfterFetch(cacheStr, todayDateStr, zone, todayResult, tomorrowResult) ==
    LET todayRaw == IF todayResult.isNull THEN << >> ELSE todayResult.rawData
        tomorrowRaw == IF tomorrowResult.isNull THEN << >>
                       ELSE tomorrowResult.rawData
    IN IF ShouldCache(todayRaw, tomorrowRaw)
       THEN JSONStringify([dateFetched |-> todayDateStr, zone |-> zone,
                           today |-> todayRaw, tomorrow |-> tomorrowRaw])
       ELSE cacheStr

-----------------------------------------------------------------------------
(* handleCalculate *)

\* parseInt(minutesNeededInput.value): NaN or an integer
NaN == [isNaN |-> TRUE, n |-> 0]
Num(n) == [isNaN |-> FALSE, n |-> n]

\* what the user can have entered when the button is clicked
Entered(minutesNeeded, topSlotsNeeded, window, userFees) ==
    [minutesNeeded |-> minutesNeeded, topSlotsNeeded |-> topSlotsNeeded,
     window |-> window, userFees |-> userFees]

NoFees == [gridFee |-> 0, energyTax |-> 0, vat |-> 0]
SomeFees == [gridFee |-> 1, energyTax |-> 1, vat |-> 25]

\* The clicks of the model, each a zone with what was entered: a short
\* request, a long one that differs in every input, a duration that is no
\* whole number of periods, the longest duration validation accepts, and
\* durations that it rejects.
InputChoices ==
    {<<3, Entered(Num(15), 2, <<0, 24>>, NoFees)>>,
     <<3, Entered(Num(60), 1, <<0, 12>>, SomeFees)>>,
     <<4, Entered(Num(20), 2, <<0, 24>>, NoFees)>>,
     <<4, Entered(Num(48 * 60), 1, <<0, 24>>, NoFees)>>}
    \cup {<<3, Entered(m, 1, <<0, 24>>, NoFees)>> :
             m \in {NaN, Num(14), Num(48 * 60 + 1)}}

InvalidDurationMutant(minutesNeeded) ==
    \/ (~minutesNeeded.isNaN /\ minutesNeeded.n <= 15)
    \/ (~minutesNeeded.isNaN /\ minutesNeeded.n >= 48 * 60)
    \/ minutesNeeded.isNaN

\* minutesNeeded < 15 || minutesNeeded > totalMaxHours * 60
\*                    || isNaN(minutesNeeded); a comparison with NaN is false
InvalidDuration(minutesNeeded) ==
    \/ (~minutesNeeded.isNaN /\ minutesNeeded.n < 15)
    \/ (~minutesNeeded.isNaN /\ minutesNeeded.n > 48 * 60)
    \/ minutesNeeded.isNaN

\* the callback of the filter that handleCalculate names but never runs
EligiblePeriod(p, startHour, endHour) ==
    IF p.isPast THEN FALSE
    ELSE IF startHour # 0 \/ endHour # 24
         THEN LocalHours(p.timestamp) >= startHour
              /\ LocalHours(p.timestamp) < endHour
         ELSE TRUE

\* availablePrices = allPrices || allPrices.filter(...): an array is truthy,
\* so the right operand is never evaluated
AvailablePrices(allPrices, startHour, endHour) == allPrices

NoCalc ==
    [pc |-> "idle", zone |-> 0, minutesNeeded |-> 0, topSlotsNeeded |-> 0,
     startHour |-> 0, endHour |-> 0,
     userFees |-> NoFees, today |-> 0, todayDateStr |-> 0]

NoPipeline ==
    [ran |-> FALSE, isCached |-> FALSE, allRawPrices |-> << >>,
     statusMessage |-> << >>, zone |-> 0,
     todayDateStr |-> 0, localDate |-> 0,
     todayLength |-> 0, tomorrowLength |-> 0, storedOn |-> -1]

\* What the page shows. minutesNeeded, topSlotsNeeded, window and userFees
\* are what the input fields held at the last click.
InitialView ==
    [messageBox |-> "initial", dataStatus |-> << >>, required |-> 0,
     available |-> 0, results |-> << >>, window |-> <<0, 24>>,
     minutesNeeded |-> Num(60), topSlotsNeeded |-> 1, userFees |-> NoFees]

DisabledWhileLoadingMutant == FALSE

\* calculateButton.disabled while a calculation loads
DisabledWhileLoading == TRUE

CalculationOutcomeStoresMutant(c, result, nowTime) ==
    LET allPrices == ParsePriceData(JsArray(result.allRawPrices), c.userFees,
                                    nowTime)
        availablePrices == AvailablePrices(allPrices, c.startHour, c.endHour)
        totalMinutesAvailable == Len(availablePrices) * 15
        results == FindTopBestTimeSlots(availablePrices, c.minutesNeeded,
                                        c.topSlotsNeeded)
    IN IF Len(result.allRawPrices) = 0
       THEN [messageBox |-> "noData", selected |-> FALSE, results |-> << >>,
             required |-> 0, available |-> 0]
       ELSE IF totalMinutesAvailable < c.minutesNeeded
       THEN [messageBox |-> "notEnough", selected |-> TRUE,
             results |-> << >>, required |-> c.minutesNeeded,
             available |-> totalMinutesAvailable]
       ELSE [messageBox |-> IF Len(results) = 0 THEN "noBlock" ELSE "found",
             selected |-> TRUE, results |-> results, required |-> 0,
             available |-> 0]

CalculationOutcomeMutant(c, result, nowTime) ==
    LET allPrices == ParsePriceData(JsArray(result.allRawPrices), c.userFees,
                                    nowTime)
        availablePrices == AvailablePrices(allPrices, c.startHour, c.endHour)
        totalMinutesAvailable == Len(availablePrices) * 15
        results == FindTopBestTimeSlots(availablePrices, c.minutesNeeded,
                                        c.topSlotsNeeded)
    IN IF totalMinutesAvailable < c.minutesNeeded
       THEN [messageBox |-> "notEnough", selected |-> FALSE,
             results |-> << >>, required |-> c.minutesNeeded,
             available |-> totalMinutesAvailable]
       ELSE [messageBox |-> IF Len(results) = 0 THEN "noBlock" ELSE "found",
             selected |-> TRUE, results |-> results, required |-> 0,
             available |-> 0]

\* handleCalculate from the status box on: what it shows and selects.
\* selected says whether findTopBestTimeSlots was called.
CalculationOutcome(c, result, nowTime) ==
    LET allPrices == ParsePriceData(JsArray(result.allRawPrices), c.userFees,
                                    nowTime)
        availablePrices == AvailablePrices(allPrices, c.startHour, c.endHour)
        totalSlotsAvailable == Len(availablePrices)
        totalMinutesAvailable == totalSlotsAvailable * 15
        results == FindTopBestTimeSlots(availablePrices, c.minutesNeeded,
                                        c.topSlotsNeeded)
    IN IF Len(result.allRawPrices) = 0
       THEN [messageBox |-> "noData", selected |-> FALSE, results |-> << >>,
             required |-> 0, available |-> 0]
       ELSE IF totalMinutesAvailable < c.minutesNeeded
       THEN [messageBox |-> "notEnough", selected |-> FALSE,
             results |-> << >>, required |-> c.minutesNeeded,
             available |-> totalMinutesAvailable]
       ELSE [messageBox |-> IF Len(results) = 0 THEN "noBlock" ELSE "found",
             selected |-> TRUE, results |-> results, required |-> 0,
             available |-> 0]

\* The rest of handleCalculate once checkCacheAndFetchPrices has resolved
\* with result: status box, outcome, the globals, and the finally block.
\* renderPriceChart calls the Chart constructor of a library the page loads
\* from elsewhere; where that is missing the call throws into the catch
\* block, after the globals were written and before any slot is rendered.
Finish(c, result, done) ==
    \E outcome \in {CalculationOutcome(c, result, clock)} :
    \E chartRenders \in IF outcome.messageBox = "found" THEN BOOLEAN
                        ELSE {TRUE} :
       /\ view' = IF chartRenders
                  THEN [messageBox |-> outcome.messageBox,
                        dataStatus |-> result.statusMessage,
                        required |-> outcome.required,
                        available |-> outcome.available,
                        results |-> outcome.results,
                        window |-> <<c.startHour, c.endHour>>,
                        minutesNeeded |-> Num(c.minutesNeeded),
                        topSlotsNeeded |-> c.topSlotsNeeded,
                        userFees |-> c.userFees]
                  ELSE [messageBox |-> "criticalError",
                        dataStatus |-> <<"Data Error">>,
                        required |-> 0, available |-> 0, results |-> << >>,
                        window |-> <<c.startHour, c.endHour>>,
                        minutesNeeded |-> Num(c.minutesNeeded),
                        topSlotsNeeded |-> c.topSlotsNeeded,
                        userFees |-> c.userFees]
       /\ lastCalculatedSlots' =
             IF outcome.selected THEN outcome.results ELSE lastCalculatedSlots
       /\ lastCalculatedUserFees' =
             IF outcome.selected THEN c.userFees ELSE lastCalculatedUserFees
       /\ calculateButtonDisabled' = FALSE
       /\ calc' = NoCalc
       /\ fetch' = [d \in {"today", "tomorrow"} |-> NoFetch]
       /\ pipeline' = done

\* A click on the calculate button with the inputs as entered; a disabled
\* button receives no click.
HandleCalculate(zone, minutesNeeded, topSlotsNeeded, window, userFees) ==
    /\ fnPc = "off"
    /\ ~calculateButtonDisabled
    /\ IF InvalidDuration(minutesNeeded)
       THEN /\ view' = [InitialView EXCEPT !.messageBox = "invalidDuration",
                                           !.dataStatus = view.dataStatus,
                                           !.window = window,
                                           !.minutesNeeded = minutesNeeded,
                                           !.topSlotsNeeded = topSlotsNeeded,
                                           !.userFees = userFees]
            /\ UNCHANGED <<clock, ticks, localStorage, calc, fetch,
                           calculateButtonDisabled, lastCalculatedSlots,
                           lastCalculatedUserFees, pipeline, started>>
       ELSE LET today == clock
                todayDateStr == UtcDateStr(today)
                c == [pc |-> "fetching", zone |-> zone,
                      minutesNeeded |-> minutesNeeded.n,
                      topSlotsNeeded |-> topSlotsNeeded,
                      startHour |-> window[1], endHour |-> window[2],
                      userFees |-> userFees,
                      today |-> today, todayDateStr |-> todayDateStr]
                ran == [NoPipeline EXCEPT !.ran = TRUE, !.zone = zone,
                                          !.todayDateStr = todayDateStr,
                                          !.localDate = LocalDate(today),
                                          !.storedOn = pipeline.storedOn]
            IN /\ started < MaxStarted
               /\ started' = started + 1
               /\ UNCHANGED <<clock, ticks, localStorage>>
               /\ IF CacheIsValid(localStorage, zone, todayDateStr)
                  THEN \E result \in {CachedResult(localStorage)} :
                          Finish(c, result,
                             [ran EXCEPT !.isCached = TRUE,
                                 !.allRawPrices = result.allRawPrices,
                                 !.statusMessage = result.statusMessage])
                  ELSE /\ calculateButtonDisabled' = DisabledWhileLoading
                       /\ calc' = c
                       /\ fetch' = [d \in {"today", "tomorrow"} |->
                                      IF d = "today"
                                      THEN StartFetch(today, zone)
                                      ELSE StartFetch(NextDay(today), zone)]
                       /\ view' = [InitialView EXCEPT
                                      !.messageBox = "loading",
                                      !.window = window,
                                      !.minutesNeeded = minutesNeeded,
                                      !.topSlotsNeeded = topSlotsNeeded,
                                      !.userFees = userFees]
                       /\ pipeline' = [NoPipeline EXCEPT
                                          !.storedOn = pipeline.storedOn]
                       /\ UNCHANGED <<lastCalculatedSlots,
                                      lastCalculatedUserFees>>
    /\ UNCHANGED fnVars

\* Promise.all has resolved: merge, maybe cache, and finish the calculation.
Resolve(f) ==
    LET newCache == CacheAfterFetch(localStorage, calc.todayDateStr, calc.zone,
                                    f["today"], f["tomorrow"])
        todayRaw == IF f["today"].isNull THEN << >> ELSE f["today"].rawData
        tomorrowRaw == IF f["tomorrow"].isNull THEN << >>
                       ELSE f["tomorrow"].rawData
    IN \E result \in {FetchedResult(f["today"], f["tomorrow"])} :
       /\ localStorage' = newCache
       /\ Finish(calc, result,
             [ran |-> TRUE, isCached |-> FALSE,
              allRawPrices |-> result.allRawPrices,
              statusMessage |-> result.statusMessage,
              zone |-> calc.zone, todayDateStr |-> calc.todayDateStr,
              localDate |-> LocalDate(calc.today),
              todayLength |-> Len(todayRaw),
              tomorrowLength |-> Len(tomorrowRaw),
              storedOn |-> IF newCache # localStorage
                           THEN LocalDate(calc.today)
                           ELSE pipeline.storedOn])

FetchStepMutant(d, f) ==
    LET next == [fetch EXCEPT ![d] = f]
        first == IF d = "today" THEN "tomorrow" ELSE "today"
    IN IF next["today"].pc = "done" /\ next["tomorrow"].pc = "done"
       THEN Resolve([e \in {"today", "tomorrow"} |->
                        IF e = "today" THEN next[first] ELSE next[d]])
       ELSE /\ fetch' = next
            /\ UNCHANGED <<localStorage, calc, calculateButtonDisabled,
                           lastCalculatedSlots, lastCalculatedUserFees, view,
                           pipeline>>

\* A fetchPrices invocation moves to f; when that resolves the second of the
\* two, Promise.all resolves and the calculation finishes in the same turn.
FetchStep(d, f) ==
    LET next == [fetch EXCEPT ![d] = f]
    IN IF next["today"].pc = "done" /\ next["tomorrow"].pc = "done"
       THEN Resolve(next)
       ELSE /\ fetch' = next
            /\ UNCHANGED <<localStorage, calc, calculateButtonDisabled,
                           lastCalculatedSlots, lastCalculatedUserFees, view,
                           pipeline>>

\* The remote source answers the request a day's fetch is waiting for.
FetchResponse(d, outcome) ==
    /\ calc.pc = "fetching"
    /\ fetch[d].pc = "awaiting"
    /\ FetchStep(d, FetchOnResponse(fetch[d], outcome))
    /\ UNCHANGED <<clock, ticks, started, fnVars>>

\* The backoff timer of a day's fetch fires.
BackoffElapsed(d) ==
    /\ calc.pc = "fetching"
    /\ fetch[d].pc = "backoff"
    /\ FetchStep(d, FetchOnTimer(fetch[d]))
    /\ UNCHANGED <<clock, ticks, started, fnVars>>

\* Time passes.
Tick ==
    /\ fnPc = "off"
    /\ ticks < MaxTicks
    /\ ticks' = ticks + 1
    /\ clock' = clock + ClockStep
    /\ UNCHANGED <<localStorage, calc, fetch, calculateButtonDisabled,
                   lastCalculatedSlots, lastCalculatedUserFees, view,
                   pipeline, started, fnVars>>

PageIdle ==
    /\ clock = ClockStart
    /\ ticks = 0
    /\ calc = NoCalc
    /\ fetch = [d \in {"today", "tomorrow"} |-> NoFetch]
    /\ calculateButtonDisabled = FALSE
    /\ lastCalculatedSlots = << >>
    /\ lastCalculatedUserFees = NoFees
    /\ view = InitialView
    /\ pipeline = NoPipeline
    /\ started = 0

\* The page after DOMContentLoaded; the store may hold nothing or a value
\* that is not JSON.
Init ==
    /\ PageIdle
    /\ localStorage \in {<< >>, CorruptItem}
    /\ fnSeries = << >>
    /\ fnMinutes = 0
    /\ fnNumSlots = 0
    /\ fnSlots = << >>
    /\ fnPc = "off"
    /\ fnCalls = 0
    /\ pfArgs = << >>
    /\ pfResult = << >>

Click ==
    \E choice \in InputChoices :
        LET zone == choice[1]
            in == choice[2]
        IN HandleCalculate(zone, in.minutesNeeded, in.topSlotsNeeded,
                           in.window, in.userFees)

Response == \E d \in {"today", "tomorrow"}, outcome \in Outcomes :
                FetchResponse(d, outcome)

Timer == \E d \in {"today", "tomorrow"} : BackoffElapsed(d)

Next == Click \/ Response \/ Timer \/ Tick

Spec == Init /\ [][Next]_vars

-----------------------------------------------------------------------------
(* SpecSlots: findTopBestTimeSlots on every bounded series *)

RECURSIVE TimesFrom(_, _, _)
\* start timestamps of a series whose i-th step skips gaps[i] periods
TimesFrom(gaps, i, t) ==
    IF i > Len(gaps) THEN << >>
    ELSE <<t + 15 * gaps[i]>> \o TimesFrom(gaps, i + 1, t + 15 * gaps[i] + 15)

\* Series sorted ascending by unique timestamp, as parsePriceData returns
\* them; at most one 15-minute period is missing from the timeline.
GeneratedSeries ==
    UNION {
        { [i \in 1..n |->
              Period(TimesFrom(gaps, 1, 0)[i], prices[i], prices[i], FALSE)] :
            prices \in [1..n -> PriceValues],
            gaps \in { g \in [1..n -> {0, 1}] :
                         /\ n > 0 => g[1] = 0
                         /\ Cardinality({i \in 1..n : g[i] = 1}) <= 1 } } :
        n \in 0..MaxLen }

InitSlots ==
    /\ fnSeries \in GeneratedSeries
    /\ fnMinutes \in Durations
    /\ fnNumSlots \in 0..MaxTopN
    /\ fnSlots = << >>
    /\ fnPc = "call"
    /\ fnCalls = 0
    /\ pfArgs = << >>
    /\ pfResult = << >>
    /\ PageIdle
    /\ localStorage = << >>

\* a call of the function on the series, the first or a later one
CallFindTopBestTimeSlots ==
    /\ fnPc \in {"call", "done"}
    /\ fnCalls < MaxCalls
    /\ \E bestSlots \in {FindTopBestTimeSlots(fnSeries, fnMinutes,
                                               fnNumSlots)} :
          /\ fnSlots' = bestSlots
          /\ fnSeries' = InputAfterCall(fnSeries, bestSlots)
    /\ fnPc' = "done"
    /\ fnCalls' = fnCalls + 1
    /\ UNCHANGED <<fnMinutes, fnNumSlots, pfArgs, pfResult, pageVars>>

NextSlots == CallFindTopBestTimeSlots

SpecSlots == InitSlots /\ [][NextSlots]_vars

-----------------------------------------------------------------------------
(* SpecParse: parsePriceData on every bounded raw value *)

\* raw periods at three quarter hours with two prices; an array may hold
\* them in any order and more than once
RawChoices == {RawPeriod(wall, price) : wall \in {0, 15, 30},
                                        price \in {-1, 2}}

RawArrays == UNION {[1..n -> RawChoices] : n \in 0..MaxRaw}

InitParse ==
    /\ pfArgs \in [rawData : {NotAnArray} \cup {JsArray(a) : a \in RawArrays},
                    userFees : {NoFees, SomeFees},
                    nowTime : {-45, 0}]
    /\ pfResult = << >>
    /\ fnPc = "callParse"
    /\ fnSeries = << >>
    /\ fnMinutes = 0
    /\ fnNumSlots = 0
    /\ fnSlots = << >>
    /\ fnCalls = 0
    /\ PageIdle
    /\ localStorage = << >>

CallParsePriceData ==
    /\ fnPc = "callParse"
    /\ pfResult' = ParsePriceData(pfArgs.rawData, pfArgs.userFees,
                                  pfArgs.nowTime)
    /\ fnPc' = "doneParse"
    /\ UNCHANGED <<fnSeries, fnMinutes, fnNumSlots, fnSlots, fnCalls, pfArgs,
                   pageVars>>

NextParse == CallParsePriceData

SpecParse == InitParse /\ [][NextParse]_vars

-----------------------------------------------------------------------------
(* SpecFees: applyUserFees on bounded integer arguments *)

InitFees ==
    /\ pfArgs \in [basePrice : (-MaxBase)..MaxBase, vat : 0..MaxVat,
                    energyTax : 0..MaxFee, gridFee : 0..MaxFee]
    /\ pfResult = << >>
    /\ fnPc = "callFees"
    /\ fnSeries = << >>
    /\ fnMinutes = 0
    /\ fnNumSlots = 0
    /\ fnSlots = << >>
    /\ fnCalls = 0
    /\ PageIdle
    /\ localStorage = << >>

\* the price for the arguments, and for each fee raised by one with the
\* other arguments as they are
CallApplyUserFees ==
    /\ fnPc = "callFees"
    /\ pfResult' =
          [price |-> ApplyUserFees(pfArgs.basePrice, pfArgs.vat,
                                   pfArgs.energyTax, pfArgs.gridFee),
           gridFeeRaised |-> ApplyUserFees(pfArgs.basePrice, pfArgs.vat,
                                           pfArgs.energyTax,
                                           pfArgs.gridFee + 1),
           energyTaxRaised |-> ApplyUserFees(pfArgs.basePrice, pfArgs.vat,
                                             pfArgs.energyTax + 1,
                                             pfArgs.gridFee),
           vatRaised |-> ApplyUserFees(pfArgs.basePrice, pfArgs.vat + 1,
                                       pfArgs.energyTax, pfArgs.gridFee)]
    /\ fnPc' = "doneFees"
    /\ UNCHANGED <<fnSeries, fnMinutes, fnNumSlots, fnSlots, fnCalls, pfArgs,
                   pageVars>>

NextFees == CallApplyUserFees

SpecFees == InitFees /\ [][NextFees]_vars

-----------------------------------------------------------------------------
(* SpecAll: the page, and findTopBestTimeSlots on every bounded series *)

InitAll == Init \/ InitSlots

NextAll == Next \/ NextSlots

SpecAll == InitAll /\ [][NextAll]_vars

-----------------------------------------------------------------------------
(* Claims about findTopBestTimeSlots *)

SlotTimes(slot) == {slot.periods[i].timestamp : i \in 1..Len(slot.periods)}

\* C1: the slots returned by findTopBestTimeSlots are pairwise disjoint: no
\* period (timestamp, which is unique in a series) belongs to two of them.
C1_SlotsDisjoint ==
    fnPc = "done" =>
        \A i, j \in 1..Len(fnSlots) :
            i # j => SlotTimes(fnSlots[i]) \cap SlotTimes(fnSlots[j]) = {}

C1_Witness ==
    /\ fnPc = "done"
    /\ Len(fnSlots) >= 2
    /\ fnMinutes >= 30

\* C2: the returned slots carry ranks 1..n in list order and their total
\* costs are non-decreasing in rank.
C2_RankedByCost ==
    fnPc = "done" =>
        /\ \A i \in 1..Len(fnSlots) : fnSlots[i].rank = i
        /\ \A i, j \in 1..Len(fnSlots) :
              i < j => fnSlots[i].totalCost <= fnSlots[j].totalCost

C2_Witness ==
    /\ fnPc = "done"
    /\ Len(fnSlots) >= 3
    /\ fnSlots[1].totalCost < fnSlots[2].totalCost
    /\ fnSlots[2].totalCost < fnSlots[3].totalCost

\* C3: every returned slot is contiguous in time and covers exactly the
\* requested duration: periodsNeeded periods, consecutive ones 15 minutes
\* apart, endTime - startTime = durationMinutes.
C3_SlotsContiguousInTime ==
    fnPc = "done" =>
        \A s \in 1..Len(fnSlots) :
            LET slot == fnSlots[s]
            IN /\ Len(slot.periods) * 15 = fnMinutes
               /\ \A i \in 1..(Len(slot.periods) - 1) :
                     slot.periods[i + 1].timestamp
                        = slot.periods[i].timestamp + 15
               /\ slot.endTime - slot.startTime = fnMinutes

-----------------------------------------------------------------------------
(* Claims about the calculation and the cached fetch pipeline *)

\* C4: every period of every slot a calculation returns is eligible: not in
\* the past at evaluation time and, unless the window is 0-24, with its hour
\* inside the requested window.
C4_SlotsEligible ==
    view.messageBox = "found" =>
        \A s \in 1..Len(view.results) :
            \A i \in 1..Len(view.results[s].periods) :
                EligiblePeriod(view.results[s].periods[i],
                               view.window[1], view.window[2])

\* a fetching calculation finishes in this step
Resolves == calc.pc = "fetching" /\ calc'.pc = "idle"

\* C5: a miss writes the cache entry if and only if both days returned
\* non-empty data; otherwise the stored value is left as it was, so it is
\* still no valid entry for that zone and date.
C5_CacheOnlyBothDays ==
    [][Resolves =>
         IF pipeline'.todayLength > 0 /\ pipeline'.tomorrowLength > 0
         THEN /\ localStorage' # localStorage
              /\ localStorage'[1] = calc.todayDateStr
              /\ localStorage'[2] = calc.zone
         ELSE /\ localStorage' = localStorage
              /\ ~(/\ Len(localStorage') > 1
                   /\ localStorage'[1] = calc.todayDateStr
                   /\ localStorage'[2] = calc.zone)]_vars

C5_Witness ==
    /\ pipeline.ran /\ ~pipeline.isCached
    /\ pipeline.todayLength > 0
    /\ pipeline.tomorrowLength = 0
    /\ pipeline.statusMessage[2] = "not yet released (404)"
    /\ localStorage = << >>

\* a click passes validation in this step, for zone z
Starts(z) ==
    /\ calc.pc = "idle"
    /\ started' = started + 1
    /\ z = IF calc'.pc = "fetching" THEN calc'.zone ELSE pipeline'.zone

\* a stored entry for zone z and the current (UTC) date
EntryFor(z) ==
    /\ Len(localStorage) > 1
    /\ localStorage[1] = UtcDateStr(clock)
    /\ localStorage[2] = z

\* C6: checkCacheAndFetchPrices is a cache hit exactly when a stored entry
\* has the requested zone and the current date; a hit issues no request and
\* writes nothing, every other call fetches both days.
C6_HitIffEntryValid ==
    [][\A z \in Zones : Starts(z) =>
         IF EntryFor(z)
         THEN /\ calc'.pc = "idle"
              /\ pipeline'.isCached
              /\ localStorage' = localStorage
              /\ \A d \in {"today", "tomorrow"} : fetch'[d].requests = 0
         ELSE /\ calc'.pc = "fetching"
              /\ ~pipeline'.isCached
              /\ \A d \in {"today", "tomorrow"} :
                    fetch'[d].pc = "awaiting" /\ fetch'[d].requests = 1
              /\ fetch'["today"].url.zone = z
              /\ fetch'["tomorrow"].url.zone = z
              /\ fetch'["tomorrow"].url.day = fetch'["today"].url.day + 1]_vars

C6_Witness ==
    /\ pipeline.ran /\ pipeline.isCached
    /\ calc.pc = "idle"
    /\ EntryFor(pipeline.zone)

\* C7: a cache hit happens only on the local calendar day on which the entry
\* was stored: the first call after the local day has changed is a miss.
C7_HitOnlyOnStoredLocalDay ==
    (pipeline.ran /\ pipeline.isCached) =>
        pipeline.storedOn = pipeline.localDate

\* C8: a call that immediately follows a miss with both days non-empty, for
\* the same zone and date, is a hit that returns the same raw periods in the
\* same order as the miss returned.
C8_CacheRoundTrip ==
    [][(/\ pipeline.ran /\ ~pipeline.isCached
        /\ pipeline.todayLength > 0 /\ pipeline.tomorrowLength > 0
        /\ Starts(pipeline.zone)
        /\ UtcDateStr(clock) = pipeline.todayDateStr)
       => /\ pipeline'.isCached
          /\ pipeline'.allRawPrices = pipeline.allRawPrices]_vars

C8_Witness ==
    /\ pipeline.ran /\ pipeline.isCached
    /\ Len(pipeline.allRawPrices) = 6
    /\ \E i \in 1..5 : pipeline.allRawPrices[i].SEK_per_kWh
                          # pipeline.allRawPrices[i + 1].SEK_per_kWh

\* C9: a 404 response is never retried: the fetch that received it has
\* returned no data with the 'not yet released' status, and has waited only
\* after the failed attempts before it (one wait per earlier request).
C9_NotFoundNotRetried ==
    \A d \in {"today", "tomorrow"} :
        fetch[d].saw404 =>
            /\ fetch[d].pc = "done"
            /\ fetch[d].isNull
            /\ fetch[d].status = "not yet released (404)"
            /\ Len(fetch[d].waits) = fetch[d].requests - 1

C9_Witness ==
    \E d \in {"today", "tomorrow"} :
        fetch[d].saw404 /\ fetch[d].requests = 2 /\ fetch[d].pc = "done"

\* C10: a day's fetch issues at most maxRetries requests, waits 2^attempt
\* seconds after each failed attempt but the last, ends with the
\* network-failure status only after maxRetries requests, and stops at the
\* first response that is a success or a 404; a calculation issues at most
\* 2 * maxRetries requests.
C10_RetriesWithBackoff ==
    /\ \A d \in {"today", "tomorrow"} :
          LET f == fetch[d]
          IN /\ f.requests <= MaxRetries
             /\ f.waits = [i \in 1..Len(f.waits) |-> 2 ^ (i - 1)]
             /\ f.pc \in {"awaiting", "done"} =>
                    Len(f.waits) = f.requests - 1
             /\ f.pc = "backoff" =>
                    Len(f.waits) = f.requests /\ f.requests < MaxRetries
             /\ (f.pc = "done" /\ f.isNull /\ ~f.saw404) =>
                    /\ f.status = "Network error"
                    /\ f.requests = MaxRetries
                    /\ f.waits = <<1, 2>>
    /\ fetch["today"].requests + fetch["tomorrow"].requests <= 2 * MaxRetries

C10_Witness ==
    \E d \in {"today", "tomorrow"} :
        /\ fetch[d].pc = "done"
        /\ fetch[d].status = "Network error"
        /\ fetch[d].waits = <<1, 2>>

FailureStatuses == {"not yet released (404)", "Network error", "after retries"}

\* the periods a day contributed to a miss that returns length of them
DayPeriods(url, length) == IF length > 0 THEN RemoteBody(url) ELSE << >>

\* the sorted periods of the two days of the miss that resolves in this step
MergedDays ==
    SortRaw(DayPeriods(fetch["today"].url, pipeline'.todayLength)
            \o DayPeriods(fetch["tomorrow"].url, pipeline'.tomorrowLength))

\* C11: fetch failures never escape the pipeline. Whenever the two fetches
\* of a miss have ended, whatever their outcomes, checkCacheAndFetchPrices
\* returns: a day that ended with a failure status contributes no period, the
\* periods returned are exactly those of the days that loaded, both statuses
\* are in the message, and the page shows its error only after slots were
\* found. Today loaded with tomorrow 404 returns exactly today's periods.
C11_FetchFailuresContained ==
    [][Resolves =>
         LET st == pipeline'.statusMessage
         IN /\ pipeline'.ran /\ ~pipeline'.isCached
            /\ Len(st) = 3
            /\ st[1] \in FailureStatuses \cup {"successfully loaded"}
            /\ st[2] \in FailureStatuses \cup {"successfully loaded"}
            /\ st[1] \in FailureStatuses => pipeline'.todayLength = 0
            /\ st[2] \in FailureStatuses => pipeline'.tomorrowLength = 0
            /\ pipeline'.allRawPrices = MergedDays
            /\ (/\ st[1] = "successfully loaded"
                /\ st[2] = "not yet released (404)")
               => pipeline'.allRawPrices
                     = SortRaw(DayPeriods(fetch["today"].url,
                                          pipeline'.todayLength))
            /\ view'.messageBox \in {"noData", "notEnough", "noBlock",
                                     "found", "criticalError"}
            /\ view'.messageBox # "criticalError"
                  => view'.dataStatus = st
            /\ view'.messageBox = "criticalError"
                  => lastCalculatedSlots' # << >>]_vars

C11_Witness ==
    /\ pipeline.ran /\ ~pipeline.isCached
    /\ pipeline.statusMessage[1] = "successfully loaded"
    /\ pipeline.statusMessage[2] = "not yet released (404)"
    /\ Len(pipeline.allRawPrices) = 3
    /\ view.dataStatus = pipeline.statusMessage
    /\ view.messageBox = "found"

\* C12: the two fetches of a miss run side by side, each in its own retry
\* loop, and nothing is merged, shown or cached before both have ended; the
\* result then depends on the two days' outcomes only, not on the order in
\* which their attempts, waits and completions happened: the day that ended
\* first keeps its status and its periods, today's come first in the
\* message, and the entry is written exactly when both days have periods.
C12_InterleavingIndependent ==
    [][/\ (calc.pc = "fetching" /\ calc'.pc = "fetching") =>
            /\ localStorage' = localStorage
            /\ pipeline' = pipeline
            /\ view' = view
            /\ \E d \in {"today", "tomorrow"} : fetch'[d] = fetch[d]
       /\ Resolves =>
            LET st == pipeline'.statusMessage
                length == [d \in {"today", "tomorrow"} |->
                              IF d = "today" THEN pipeline'.todayLength
                              ELSE pipeline'.tomorrowLength]
                at == [d \in {"today", "tomorrow"} |->
                          IF d = "today" THEN 1 ELSE 2]
                both == length["today"] > 0 /\ length["tomorrow"] > 0
            IN /\ \E d \in {"today", "tomorrow"} : fetch[d].pc = "done"
               /\ \A d \in {"today", "tomorrow"} :
                     fetch[d].pc = "done" =>
                        /\ st[at[d]] = fetch[d].status
                        /\ length[d] = Len(fetch[d].rawData)
               /\ pipeline'.allRawPrices = MergedDays
               /\ st[3] = IF both THEN "Data successfully cached."
                          ELSE "Warning: Partial data. Not caching."
               /\ localStorage'
                     = IF both
                       THEN JSONStringify(
                               [dateFetched |-> calc.todayDateStr,
                                zone |-> calc.zone,
                                today |-> RemoteBody(fetch["today"].url),
                                tomorrow |->
                                    RemoteBody(fetch["tomorrow"].url)])
                       ELSE localStorage]_vars

C12_Witness ==
    /\ calc.pc = "fetching"
    /\ fetch["tomorrow"].pc = "done"
    /\ ~fetch["tomorrow"].isNull
    /\ fetch["today"].pc = "backoff"
    /\ fetch["today"].requests = 2
    /\ ~pipeline.ran
    /\ view.messageBox = "loading"

\* C13: at most one calculation is in flight. The calculate button is
\* disabled exactly while a calculation that passed validation waits for its
\* data, no handleCalculate passes validation while another is in flight,
\* and a calculation in flight ends, on whichever path (no data, not enough
\* periods, no slot, slots found, or an exception), with the button enabled
\* again.
C13_OneCalculationInFlight ==
    /\ [](calculateButtonDisabled <=> calc.pc = "fetching")
    /\ [][started' # started => calc.pc = "idle"]_vars
    /\ [][Resolves =>
            /\ ~calculateButtonDisabled'
            /\ view'.messageBox \in {"noData", "notEnough", "noBlock",
                                     "found", "criticalError"}]_vars

C13_Witness ==
    /\ view.messageBox = "criticalError"
    /\ pipeline.ran /\ ~pipeline.isCached
    /\ calc.pc = "idle"
    /\ ~calculateButtonDisabled
    /\ started = MaxStarted

\* a step of the idle page other than the passing of time: a click
ClickStep == ~calculateButtonDisabled /\ calc.pc = "idle" /\ clock' = clock

\* C14: a click whose duration is not a number, below 15 or above 2880
\* minutes ends with the invalid-duration message and nothing else: the
\* stored value, the fetches, the pipeline record, the globals and the
\* button stay as they were. A click with any other duration passes
\* validation and starts a calculation.
C14_InvalidDurationStopsFirst ==
    [][ClickStep =>
         LET m == view'.minutesNeeded
         IN IF m.isNaN \/ m.n < 15 \/ m.n > 2880
            THEN /\ view'.messageBox = "invalidDuration"
                 /\ view'.results = << >>
                 /\ UNCHANGED <<localStorage, fetch, calc, pipeline,
                                lastCalculatedSlots, lastCalculatedUserFees,
                                calculateButtonDisabled, started>>
            ELSE /\ view'.messageBox # "invalidDuration"
                 /\ started' = started + 1
                 /\ calc'.pc = "fetching" \/ pipeline'.isCached]_vars

C14_Witness ==
    /\ view.messageBox = "invalidDuration"
    /\ view.minutesNeeded = Num(48 * 60 + 1)
    /\ pipeline.ran /\ ~pipeline.isCached
    /\ Len(localStorage) > 1
    /\ lastCalculatedSlots # << >>
    /\ started = 1

\* the pipeline returns to handleCalculate in this step, from the cache or
\* from the two fetches
PipelineReturns ==
    \/ Resolves
    \/ (calc.pc = "idle" /\ started' = started + 1 /\ calc'.pc = "idle")

\* minutes of the periods of allPrices that are future and inside the window
EligibleMinutes(allPrices, window) ==
    15 * Cardinality({i \in 1..Len(allPrices) :
                         EligiblePeriod(allPrices[i], window[1], window[2])})

\* C15: when the eligible periods (future and inside the hour window) of the
\* merged data total fewer minutes than the duration asked for, the
\* calculation ends with the insufficient-availability message carrying the
\* required and the eligible minutes, and selects no slot.
C15_InsufficientEligibleMinutes ==
    [][PipelineReturns =>
         LET allPrices == ParsePriceData(JsArray(pipeline'.allRawPrices),
                                         NoFees, clock)
             eligible == EligibleMinutes(allPrices, view'.window)
             required == view'.minutesNeeded.n
         IN (Len(allPrices) > 0 /\ eligible < required) =>
               /\ view'.messageBox = "notEnough"
               /\ view'.required = required
               /\ view'.available = eligible
               /\ UNCHANGED <<lastCalculatedSlots,
                              lastCalculatedUserFees>>]_vars

\* C16: when the pipeline returns no raw period at all, the calculation ends
\* with the no-data message: nothing is parsed or selected, no slot is shown,
\* the globals keep their values, and the per-day status message is shown.
C16_NoDataOutcome ==
    [][(PipelineReturns /\ Len(pipeline'.allRawPrices) = 0) =>
         /\ view'.messageBox = "noData"
         /\ view'.results = << >>
         /\ Len(pipeline'.statusMessage) = 3
         /\ view'.dataStatus = pipeline'.statusMessage
         /\ ~calculateButtonDisabled'
         /\ UNCHANGED <<lastCalculatedSlots, lastCalculatedUserFees,
                        localStorage>>]_vars

C16_Witness ==
    /\ view.messageBox = "noData"
    /\ pipeline.ran /\ pipeline.allRawPrices = << >>
    /\ view.dataStatus = <<"Network error", "not yet released (404)",
                           "Warning: Partial data. Not caching.">>
    /\ lastCalculatedSlots # << >>

Remaining(i) ==
    \A s \in 1..Len(fnSlots) : fnSeries[i].timestamp \notin SlotTimes(fnSlots[s])

\* C18: findTopBestTimeSlots returns at most numSlots slots, and fewer only
\* when no candidate is left: for a duration of periodsNeeded whole periods,
\* a result shorter than numSlots means that the series without the returned
\* slots' periods has no periodsNeeded consecutive periods.
C18_FewerOnlyWhenExhausted ==
    fnPc = "done" =>
        /\ Len(fnSlots) <= fnNumSlots
        /\ (fnMinutes % 15 = 0 /\ Len(fnSlots) < fnNumSlots) =>
              LET periodsNeeded == fnMinutes \div 15
              IN \A i \in 1..(Len(fnSeries) - periodsNeeded + 1) :
                    \E j \in i..(i + periodsNeeded - 1) : ~Remaining(j)

C18_Witness ==
    /\ fnPc = "done"
    /\ fnNumSlots = 3
    /\ fnMinutes = 30
    /\ Len(fnSeries) = 5
    /\ Len(fnSlots) = 2
    /\ \E i \in 1..Len(fnSeries) : Remaining(i)

-----------------------------------------------------------------------------
(* More claims about findTopBestTimeSlots *)

\* the index in the series of the period that starts at time t
IndexOfTime(t) ==
    CHOOSE i \in 1..Len(fnSeries) : fnSeries[i].timestamp = t

\* the index at which the slot of rank k starts
StartIndex(k) == IndexOfTime(fnSlots[k].startTime)

\* start indices of the valid candidates of round k: runs of n periods at
\* consecutive indices, none of them in a slot of an earlier round
Candidates(k, n) ==
    {i \in 1..(Len(fnSeries) - n + 1) :
        \A j \in i..(i + n - 1) :
            \A s \in 1..(k - 1) :
                fnSeries[j].timestamp \notin SlotTimes(fnSlots[s])}

RECURSIVE SumFrom(_, _)
\* the sum of the all-in prices of the n periods from index i on
SumFrom(i, n) ==
    IF n = 0 THEN 0
    ELSE fnSeries[i].calculated_price + SumFrom(i + 1, n - 1)

\* C21: in each round the chosen block is a valid candidate of that round
\* with the minimum sum of all-in prices among the round's valid candidates,
\* and among the candidates with that sum it has the smallest start index.
C21_RoundPicksFirstCheapest ==
    fnPc = "done" =>
        \A k \in 1..Len(fnSlots) :
            LET n == fnMinutes \div 15
                start == StartIndex(k)
            IN /\ start \in Candidates(k, n)
               /\ Len(fnSlots[k].periods) = n
               /\ fnSlots[k].totalCost = SumFrom(start, n)
               /\ \A c \in Candidates(k, n) :
                     /\ SumFrom(c, n) >= fnSlots[k].totalCost
                     /\ SumFrom(c, n) = fnSlots[k].totalCost => c >= start

C21_Witness ==
    /\ fnPc = "done"
    /\ fnMinutes = 30
    /\ Len(fnSlots) >= 2
    /\ StartIndex(1) > 1
    /\ \E c \in Candidates(1, 2) :
          c > StartIndex(1) /\ SumFrom(c, 2) = fnSlots[1].totalCost
    /\ \E c \in Candidates(1, 2) : SumFrom(c, 2) > fnSlots[1].totalCost

\* every period of the series has the same all-in price
FlatSeries ==
    \A i, j \in 1..Len(fnSeries) :
        fnSeries[i].calculated_price = fnSeries[j].calculated_price

\* C23: on a series of L periods that all have the same all-in price, for a
\* duration of periodsNeeded whole periods, findTopBestTimeSlots returns
\* min(numSlots, floor(L / periodsNeeded)) slots; the slot of rank k covers
\* the k-th block of periodsNeeded indices from the start of the series, and
\* all slots have the same total cost.
C23_FlatPriceBlocksInOrder ==
    (fnPc = "done" /\ FlatSeries /\ fnMinutes % 15 = 0) =>
        LET n == fnMinutes \div 15
            blocks == Len(fnSeries) \div n
        IN /\ Len(fnSlots) = IF fnNumSlots < blocks THEN fnNumSlots
                              ELSE blocks
           /\ \A k \in 1..Len(fnSlots) :
                 /\ fnSlots[k].rank = k
                 /\ Len(fnSlots[k].periods) = n
                 /\ \A j \in 1..n :
                       fnSlots[k].periods[j].timestamp
                          = fnSeries[(k - 1) * n + j].timestamp
                 /\ fnSlots[k].totalCost = fnSlots[1].totalCost
                 /\ fnSlots[k].totalCost = n * fnSeries[1].calculated_price

C23_Witness ==
    /\ fnPc = "done"
    /\ FlatSeries
    /\ Len(fnSeries) = MaxLen
    /\ fnSeries[1].calculated_price = 2
    /\ fnMinutes = 30
    /\ fnNumSlots = 3
    /\ Len(fnSlots) = 2
    /\ fnSlots[2].startTime = fnSeries[3].timestamp

-----------------------------------------------------------------------------
(* Claims about findTopBestTimeSlots and the calculation that calls it *)

\* the series handleCalculate has parsed when the pipeline returns in a step
ParsedAtReturn ==
    ParsePriceData(JsArray(pipeline'.allRawPrices), view'.userFees, clock)

\* minutes of the raw periods the pipeline returns in a step that are future
\* and inside the hour window of the click
EligibleAtReturn ==
    15 * Cardinality(
           {i \in 1..Len(pipeline'.allRawPrices) :
               \E t \in {DateOf(pipeline'.allRawPrices[i].time_start)} :
                  EligiblePeriod(Period(t, 0, 0, t < clock),
                                 view'.window[1], view'.window[2])})

\* C22: a call of findTopBestTimeSlots on a fresh series that holds at least
\* the minutes asked for, with a duration that is a multiple of 15 and a
\* count of at least one, returns at least one slot; and a calculation whose
\* eligible periods total at least such a duration, with a count of at least
\* one, selects at least one slot and does not end in the no-suitable-block
\* outcome.
C22_EnoughMinutesGiveASlot ==
    /\ []((/\ fnPc = "done"
           /\ fnMinutes % 15 = 0
           /\ fnNumSlots >= 1
           /\ Len(fnSeries) * 15 >= fnMinutes) => Len(fnSlots) >= 1)
    /\ [][(/\ PipelineReturns
            /\ view'.minutesNeeded.n % 15 = 0
            /\ view'.topSlotsNeeded >= 1
            /\ Len(pipeline'.allRawPrices) > 0
            /\ EligibleAtReturn >= view'.minutesNeeded.n) =>
              /\ view'.messageBox \in {"found", "criticalError"}
              /\ Len(lastCalculatedSlots') >= 1
              /\ lastCalculatedSlots'[1].rank = 1
              /\ Len(lastCalculatedSlots'[1].periods) * 15
                    = view'.minutesNeeded.n]_vars

C22_Witness ==
    /\ view.messageBox = "found"
    /\ view.minutesNeeded = Num(15)
    /\ view.topSlotsNeeded = 2
    /\ pipeline.ran
    /\ \E eligible \in {EligibleMinutes(
                            ParsePriceData(JsArray(pipeline.allRawPrices),
                                           view.userFees, clock),
                            view.window)} :
          /\ eligible >= 15
          /\ eligible < Len(pipeline.allRawPrices) * 15
    /\ Len(lastCalculatedSlots) = 2

\* C24: with a duration that is no multiple of 15, findTopBestTimeSlots
\* returns no slot whatever the series and the count; and a calculation with
\* such a duration that has data for at least that many minutes ends in the
\* no-suitable-block outcome: no slot is shown, the globals hold the empty
\* result, the critical-error message is not shown and the button is
\* enabled again.
C24_FractionalDurationFindsNothing ==
    /\ []((fnPc = "done" /\ fnMinutes % 15 # 0) => fnSlots = << >>)
    /\ [][PipelineReturns =>
            LET required == view'.minutesNeeded.n
            IN (/\ required % 15 # 0
                /\ Len(ParsedAtReturn) * 15 >= required) =>
                  /\ view'.messageBox = "noBlock"
                  /\ view'.results = << >>
                  /\ lastCalculatedSlots' = << >>
                  /\ lastCalculatedUserFees' = view'.userFees
                  /\ ~calculateButtonDisabled']_vars

C24_Witness ==
    /\ view.messageBox = "noBlock"
    /\ view.minutesNeeded = Num(20)
    /\ view.topSlotsNeeded = 2
    /\ pipeline.ran
    /\ Len(pipeline.allRawPrices) >= 2
    /\ lastCalculatedSlots = << >>
    /\ ~calculateButtonDisabled

\* the messages of a calculation that got as far as findTopBestTimeSlots
ReachedSelection == {"found", "noBlock", "criticalError"}

Unreadable(cacheStr) == cacheStr # << >> /\ ~JSONParse(cacheStr).ok

\* C26: with a stored value that is not JSON, a calculation that passes
\* validation is a cache miss: it shows the loading state and no error, both
\* days are requested and the stored value is left alone; when the two
\* fetches have resolved the value has been replaced by a readable entry for
\* the zone and date asked for if both days returned periods, and is still
\* the unreadable value otherwise.
C26_UnreadableCacheIsAMiss ==
    /\ [][(Unreadable(localStorage) /\ \E z \in Zones : Starts(z)) =>
              /\ calc'.pc = "fetching"
              /\ ~pipeline'.isCached
              /\ view'.messageBox = "loading"
              /\ \A d \in {"today", "tomorrow"} :
                    fetch'[d].pc = "awaiting" /\ fetch'[d].requests = 1
              /\ fetch'["tomorrow"].url.day = fetch'["today"].url.day + 1
              /\ localStorage' = localStorage]_vars
    /\ [][(Unreadable(localStorage) /\ Resolves) =>
              IF pipeline'.todayLength > 0 /\ pipeline'.tomorrowLength > 0
              THEN /\ JSONParse(localStorage').ok
                   /\ JSONParse(localStorage').value.zone = calc.zone
                   /\ JSONParse(localStorage').value.dateFetched
                         = calc.todayDateStr
                   /\ Len(JSONParse(localStorage').value.today)
                         = pipeline'.todayLength
                   /\ Len(JSONParse(localStorage').value.tomorrow)
                         = pipeline'.tomorrowLength
              ELSE localStorage' = localStorage]_vars
    /\ [][(Unreadable(localStorage) /\ ~Resolves) =>
              localStorage' = localStorage]_vars

C26_Witness ==
    /\ Unreadable(localStorage)
    /\ started = 2
    /\ calc.pc = "fetching"
    /\ pipeline.storedOn = -1
    /\ view.messageBox = "loading"
    /\ fetch["today"].requests >= 1

-----------------------------------------------------------------------------
(* Claims about parsePriceData and applyUserFees *)

\* how many elements of the sequence seq equal x
Count(seq, x) == Cardinality({i \in 1..Len(seq) : seq[i] = x})

\* C19: whatever the order of the raw periods, parsePriceData returns a
\* series sorted ascending by timestamp with exactly one period per raw
\* period: as many periods as raw periods, and every (start time, base
\* price) as often as in the input. An empty array and a value that is not an
\* array give the empty series.
C19_ParseSortsAndKeepsAll ==
    fnPc = "doneParse" =>
        LET rawData == pfArgs.rawData
            given == [i \in 1..Len(rawData.items) |->
                         <<DateOf(rawData.items[i].time_start),
                           rawData.items[i].SEK_per_kWh>>]
            built == [i \in 1..Len(pfResult) |->
                         <<pfResult[i].timestamp, pfResult[i].base_price>>]
        IN /\ \A i, j \in 1..Len(pfResult) :
                 i < j => pfResult[i].timestamp <= pfResult[j].timestamp
           /\ rawData.isArray =>
                 /\ Len(pfResult) = Len(rawData.items)
                 /\ \A i \in 1..Len(given) :
                       Count(built, given[i]) = Count(given, given[i])
           /\ (~rawData.isArray \/ rawData.items = << >>) => pfResult = << >>

C19_Witness ==
    /\ fnPc = "doneParse"
    /\ Len(pfResult) = 3
    /\ DateOf(pfArgs.rawData.items[1].time_start)
          > DateOf(pfArgs.rawData.items[3].time_start)
    /\ pfArgs.rawData.items[2] = pfArgs.rawData.items[3]
    /\ pfResult[1].timestamp = pfResult[2].timestamp
    /\ pfResult[2].timestamp < pfResult[3].timestamp

\* C20 as stated: for non-negative fees and every base price, raising the
\* grid fee, the energy tax or the VAT percentage alone never lowers the
\* all-in price.
C20_MonotoneInEachFee ==
    fnPc = "doneFees" =>
        /\ pfResult.price <= pfResult.gridFeeRaised
        /\ pfResult.price <= pfResult.energyTaxRaised
        /\ pfResult.price <= pfResult.vatRaised

\* C20 as amended: raising the grid fee or the energy tax alone never lowers
\* the all-in price, for every base price; raising the VAT percentage alone
\* never lowers it when the price before VAT (base price plus both fees) is
\* not negative, and lowers it when that price is negative.
C20_MonotoneVatWhenNotNegative ==
    fnPc = "doneFees" =>
        LET priceBeforeVAT == pfArgs.basePrice + pfArgs.energyTax
                              + pfArgs.gridFee
        IN /\ pfResult.price <= pfResult.gridFeeRaised
           /\ pfResult.price <= pfResult.energyTaxRaised
           /\ priceBeforeVAT >= 0 => pfResult.price <= pfResult.vatRaised
           /\ priceBeforeVAT < 0 => pfResult.vatRaised < pfResult.price

C20_Witness ==
    /\ fnPc = "doneFees"
    /\ pfArgs.basePrice = -1
    /\ pfArgs.gridFee = 1
    /\ pfArgs.energyTax = 1
    /\ pfArgs.vat = MaxVat
    /\ pfResult.price < pfResult.vatRaised
    /\ pfResult.price < pfResult.gridFeeRaised

====
